---- MODULE Spec2Model ----
(***************************************************************************)
(* LZ77 compressor of the lzrs crate: find_longest_match (src/lib.rs) and  *)
(* LZ77::{new, setters, encode, decode, compress, decompress}              *)
(* (src/lz77.rs).  Byte vectors are sequences of naturals below 256;       *)
(* Rust's 0-based index x is the TLA+ index x + 1.                         *)
(***************************************************************************)
EXTENDS Integers, Sequences, FiniteSets

VARIABLES
    pc,                     \* position of the caller / of the running loop
    max_dictionary_size,    \* LZ77.max_dictionary_size
    lookahead_buffer_size,  \* LZ77.lookahead_buffer_size
    raw_data,               \* compress: the input slice
    i,                      \* compress: the cursor i
    compressed_data,        \* compress/encode: the output vector; decompress: the input
    tokens,                 \* the arguments of every encode call made by compress
    k,                      \* decompress: the loop index (0, 3, 6, ...)
    buffer,                 \* decode/decompress: the output vector
    panicked,               \* "none", or the slice whose bounds check failed
    position,               \* encode: argument position
    length,                 \* encode: argument length
    next_character,         \* encode: argument next_charracter
    chunk,                  \* decode: argument chunk
    before,                 \* content of the mutated vector when the call began
    search,                 \* find_longest_match: argument search
    ahead,                  \* find_longest_match: argument ahead
    found                   \* find_longest_match: returned tuple

vars == <<pc, max_dictionary_size, lookahead_buffer_size, raw_data, i,
          compressed_data, tokens, k, buffer, panicked, position, length,
          next_character, chunk, before, search, ahead, found>>

----------------------------------------------------------------------------
(* Bounds of the model *)

MaxLen == 6            \* longest exhaustively enumerated input of compress
MaxRun == 48           \* longest single-byte run given to compress
MaxStreamLen == 7      \* longest arbitrary stream given to decompress
MaxBuf == 3            \* longest output buffer given to decode
MaxChunkDistance == 5  \* largest distance field of a chunk given to decode
MaxChunkLength == 5    \* largest length field of a chunk given to decode
MaxPosition == 4097    \* largest position given to encode
MaxLength == 16        \* largest length given to encode
MaxSearch == 5         \* longest search slice given to find_longest_match
MaxAhead == 4          \* longest ahead slice given to find_longest_match

----------------------------------------------------------------------------
(* Integer helpers of the Rust code *)

Min(a, b) == IF a < b THEN a ELSE b

Max(a, b) == IF a > b THEN a ELSE b

SaturatingSub(a, b) == IF a > b THEN a - b ELSE 0

RECURSIVE BitAnd(_, _)
BitAnd(x, y) ==
    IF x = 0 \/ y = 0 THEN 0
    ELSE (x % 2) * (y % 2) + 2 * BitAnd(x \div 2, y \div 2)

RECURSIVE BitOr(_, _)
BitOr(x, y) ==
    IF x = 0 THEN y
    ELSE IF y = 0 THEN x
    ELSE Max(x % 2, y % 2) + 2 * BitOr(x \div 2, y \div 2)

ShiftLeft(x, n) == x * (2 ^ n)

ShiftRight(x, n) == x \div (2 ^ n)

AsU8(x) == x % 256

\* the Rust slice s[a..b] of a vector on which the bounds check has passed
Slice(s, a, b) == SubSeq(s, a + 1, b)

----------------------------------------------------------------------------
(* find_longest_match, src/lib.rs *)

\* search.windows(len): the number of windows and the window at 0-based index p
NumWindows(s, len) == IF Len(s) >= len THEN Len(s) - len + 1 ELSE 0

Window(s, len, p) == Slice(s, p, p + len)

\* leftmost instead of rightmost occurrence
RECURSIVE PositionFrom(_, _, _, _)
PositionFrom(s, target, len, p) ==
    IF p >= NumWindows(s, len) THEN -1
    ELSE IF Window(s, len, p) = target THEN p
    ELSE PositionFrom(s, target, len, p + 1)

LeftmostPosition(s, target, len, n) == PositionFrom(s, target, len, 0)

\* .rposition(|window| window == target): scans the n first windows from the
\* last one down, -1 for None
RECURSIVE RPosition(_, _, _, _)
RPosition(s, target, len, n) ==
    IF n = 0 THEN -1
    ELSE IF Window(s, len, n - 1) = target THEN n - 1
    ELSE RPosition(s, target, len, n - 1)

\* the loop `for length in (1..=ahead.len()).rev()` from candidate length len down
RECURSIVE MatchFrom(_, _, _)
MatchFrom(s, a, len) ==
    IF len < 1 THEN <<0, 0>>
    ELSE LET pos == RPosition(s, Slice(a, 0, len), len, NumWindows(s, len))
         IN  IF pos # -1 THEN <<Len(s) - pos, len>>
             ELSE MatchFrom(s, a, len - 1)

\* the loop run upwards: the shortest match instead of the longest
RECURSIVE MatchUpFrom(_, _, _)
MatchUpFrom(s, a, len) ==
    IF len > Len(a) THEN <<0, 0>>
    ELSE LET pos == RPosition(s, Slice(a, 0, len), len, NumWindows(s, len))
         IN  IF pos # -1 THEN <<Len(s) - pos, len>>
             ELSE MatchUpFrom(s, a, len + 1)

FindShortestMatch(s, a) == MatchUpFrom(s, a, 1)

FindLongestMatch(s, a) == MatchFrom(s, a, Len(a))

----------------------------------------------------------------------------
(* LZ77::encode and LZ77::decode, src/lz77.rs *)

\* the two nibbles of the second byte exchanged
EncodeSwapped(vec, pos, len, ch) ==
    vec \o << AsU8(BitAnd(pos, 255)),
              BitOr(AsU8(ShiftLeft(BitAnd(ShiftRight(BitAnd(pos, 3840), 8), 15), 4)),
                    AsU8(BitAnd(len, 15))),
              ch >>

Encode(vec, pos, len, ch) ==
    vec \o << AsU8(BitAnd(pos, 255)),
              BitOr(AsU8(ShiftRight(BitAnd(pos, 3840), 8)),
                    AsU8(ShiftLeft(BitAnd(len, 15), 4))),
              ch >>

DecodePosition(c) == BitOr(c[1], ShiftLeft(BitAnd(c[2], 15), 8))

DecodeLength(c) == ShiftRight(c[2], 4)

\* the copy step left out: only the literal is pushed
DecodeLiteralOnly(buf, c) == [panic |-> FALSE, buffer |-> Append(buf, c[3])]

\* decode on a 3-byte chunk: the vector afterwards, or the failed bounds
\* check of buffer[start..end]
Decode(buf, c) ==
    LET pos   == DecodePosition(c)
        len   == DecodeLength(c)
        start == SaturatingSub(Len(buf), pos)
        end   == start + len
    IN  IF ~(pos = 0 /\ len = 0) /\ start < Len(buf)
        THEN IF end > Len(buf)
             THEN [panic |-> TRUE, buffer |-> buf]
             ELSE [panic |-> FALSE,
                   buffer |-> Append(buf \o Slice(buf, start, end), c[3])]
        ELSE [panic |-> FALSE, buffer |-> Append(buf, c[3])]

----------------------------------------------------------------------------
(* Pieces of LZ77::compress and LZ77::decompress, src/lz77.rs *)

DefaultMaxDictionarySize == 4095

DefaultLookaheadBufferSize == 15

NextCharacter(raw, cur, len) ==
    IF cur + len >= Len(raw) THEN 0 ELSE raw[cur + len + 1]

\* a match consumed without the literal that follows it
AdvanceNoLiteral(cur, len) == cur + Max(len, 1)

Advance(cur, len) == cur + len + 1

\* the sentinel never removed
KeepSentinel(buf) == buf

StripSentinel(buf) ==
    IF Len(buf) > 0 /\ buf[Len(buf)] = 0 THEN Slice(buf, 0, Len(buf) - 1)
    ELSE buf

----------------------------------------------------------------------------
(* Inputs *)

SeqsUpTo(S, n) == UNION {[1..m -> S] : m \in 0..n}

Run(b, n) == [j \in 1..n |-> b]

\* b"Une phrase d'exemple Une phrase d'exemple" of the unit test
Phrase ==
    << 85, 110, 101, 32, 112, 104, 114, 97, 115, 101, 32, 100, 39, 101, 120,
       101, 109, 112, 108, 101, 32, 85, 110, 101, 32, 112, 104, 114, 97, 115,
       101, 32, 100, 39, 101, 120, 101, 109, 112, 108, 101 >>

RawBytes == {0, 97, 98}

RunBytes == {0, 97}

Inputs ==
    SeqsUpTo(RawBytes, MaxLen)
        \cup {Run(b, n) : b \in RunBytes, n \in 0..MaxRun}
        \cup {Phrase}

\* sizes given to the setters: the defaults, the values of the setters' doc
\* examples (8192 and 20) and small windows
DictionarySizes == {0, 2, 4095, 8192}

LookaheadSizes == {0, 2, 15, 20}

----------------------------------------------------------------------------
(* The state after LZ77::new(), nothing called yet *)

Fresh ==
    /\ max_dictionary_size = DefaultMaxDictionarySize
    /\ lookahead_buffer_size = DefaultLookaheadBufferSize
    /\ raw_data = <<>>
    /\ i = 0
    /\ compressed_data = <<>>
    /\ tokens = <<>>
    /\ k = 0
    /\ buffer = <<>>
    /\ panicked = "none"
    /\ position = 0
    /\ length = 0
    /\ next_character = 0
    /\ chunk = <<>>
    /\ before = <<>>
    /\ search = <<>>
    /\ ahead = <<>>
    /\ found = <<0, 0>>

Init ==
    /\ pc = "idle"
    /\ Fresh

SetMaxDictionarySize(new_size) ==
    /\ pc = "idle"
    /\ max_dictionary_size' = new_size
    /\ UNCHANGED <<pc, lookahead_buffer_size, raw_data, i, compressed_data,
                   tokens, k, buffer, panicked, position, length,
                   next_character, chunk, before, search, ahead, found>>

SetLookaheadBufferSize(new_size) ==
    /\ pc = "idle"
    /\ lookahead_buffer_size' = new_size
    /\ UNCHANGED <<pc, max_dictionary_size, raw_data, i, compressed_data,
                   tokens, k, buffer, panicked, position, length,
                   next_character, chunk, before, search, ahead, found>>

\* lz77.compress(raw): entry of LZ77::compress with the stored configuration
CompressBegin ==
    /\ pc = "idle"
    /\ pc' = "compress"
    /\ \E raw \in Inputs : raw_data' = raw
    /\ i' = 0
    /\ compressed_data' = <<>>
    /\ tokens' = <<>>
    /\ UNCHANGED <<max_dictionary_size, lookahead_buffer_size, k, buffer,
                   panicked, position, length, next_character, chunk, before,
                   search, ahead, found>>

\* one iteration of `while i < raw_data_length`
CompressStep ==
    /\ pc = "compress"
    /\ i < Len(raw_data)
    /\ LET raw_data_length     == Len(raw_data)
           search_buffer_index == Max(SaturatingSub(i, max_dictionary_size), 0)
           ahead_buffer_index  == Min(i + lookahead_buffer_size, raw_data_length)
           cursor_length       == FindLongestMatch(
                                      Slice(raw_data, search_buffer_index, i),
                                      Slice(raw_data, i, ahead_buffer_index))
           literal             == NextCharacter(raw_data, i, cursor_length[2])
       IN  /\ compressed_data' =
                  Encode(compressed_data, cursor_length[1], cursor_length[2], literal)
           /\ tokens' = Append(tokens, [at |-> i, cursor |-> cursor_length[1],
                                        length |-> cursor_length[2],
                                        next_character |-> literal])
           /\ i' = Advance(i, cursor_length[2])
    /\ UNCHANGED <<pc, max_dictionary_size, lookahead_buffer_size, raw_data, k,
                   buffer, panicked, position, length, next_character, chunk,
                   before, search, ahead, found>>

\* the loop condition fails: compress returns compressed_data
CompressReturn ==
    /\ pc = "compress"
    /\ ~(i < Len(raw_data))
    /\ pc' = "compressed"
    /\ UNCHANGED <<max_dictionary_size, lookahead_buffer_size, raw_data, i,
                   compressed_data, tokens, k, buffer, panicked, position,
                   length, next_character, chunk, before, search, ahead, found>>

\* lz77.decompress(&compressed_data) on what compress returned
DecompressBegin ==
    /\ pc = "compressed"
    /\ pc' = "decompress"
    /\ k' = 0
    /\ buffer' = <<>>
    /\ UNCHANGED <<max_dictionary_size, lookahead_buffer_size, raw_data, i,
                   compressed_data, tokens, panicked, position, length,
                   next_character, chunk, before, search, ahead, found>>

\* one iteration of `for i in (0..compressed_data_length).step_by(3)`
DecompressStep ==
    /\ pc = "decompress"
    /\ k < Len(compressed_data)
    /\ IF k + 3 > Len(compressed_data)
       THEN /\ pc' = "panic"
            /\ panicked' = "compressed_data[i..i + 3]"
            /\ UNCHANGED <<k, buffer, chunk>>
       ELSE LET c == Slice(compressed_data, k, k + 3)
                r == Decode(buffer, c)
            IN  /\ chunk' = c
                /\ IF r.panic
                   THEN /\ pc' = "panic"
                        /\ panicked' = "buffer[start..end]"
                        /\ UNCHANGED <<k, buffer>>
                   ELSE /\ buffer' = r.buffer
                        /\ k' = k + 3
                        /\ UNCHANGED <<pc, panicked>>
    /\ UNCHANGED <<max_dictionary_size, lookahead_buffer_size, raw_data, i,
                   compressed_data, tokens, position, length, next_character,
                   before, search, ahead, found>>

\* the loop is over: the sentinel is removed and the vector returned
DecompressReturn ==
    /\ pc = "decompress"
    /\ ~(k < Len(compressed_data))
    /\ pc' = "done"
    /\ buffer' = StripSentinel(buffer)
    /\ UNCHANGED <<max_dictionary_size, lookahead_buffer_size, raw_data, i,
                   compressed_data, tokens, k, panicked, position, length,
                   next_character, chunk, before, search, ahead, found>>

Next ==
    \/ \E new_size \in DictionarySizes : SetMaxDictionarySize(new_size)
    \/ \E new_size \in LookaheadSizes : SetLookaheadBufferSize(new_size)
    \/ CompressBegin
    \/ CompressStep
    \/ CompressReturn
    \/ DecompressBegin
    \/ DecompressStep
    \/ DecompressReturn

Spec == Init /\ [][Next]_vars

----------------------------------------------------------------------------
(* decompress called on an arbitrary byte stream *)

StreamBytes == {0, 1, 32, 97}

Streams == SeqsUpTo(StreamBytes, MaxStreamLen)

\* LZ77::decompress(&stream): entry of decompress
DecompressCall ==
    /\ pc = "idle"
    /\ pc' = "decompress"
    /\ \E stream \in Streams : compressed_data' = stream
    /\ k' = 0
    /\ buffer' = <<>>
    /\ UNCHANGED <<max_dictionary_size, lookahead_buffer_size, raw_data, i,
                   tokens, panicked, position, length, next_character, chunk,
                   before, search, ahead, found>>

NextStream ==
    \/ DecompressCall
    \/ DecompressStep
    \/ DecompressReturn

SpecStream == Init /\ [][NextStream]_vars

----------------------------------------------------------------------------
(* decode called on an arbitrary buffer and chunk *)

BufferBytes == {97, 98}

Buffers == SeqsUpTo(BufferBytes, MaxBuf)

Chunks ==
    { <<d, 16 * l, ch>> : d \in 0..MaxChunkDistance, l \in 0..MaxChunkLength,
                          ch \in {0, 120} }

\* LZ77::decode(&mut buf, &c)
DecodeCall(buf, c) ==
    LET r == Decode(buf, c)
    IN  /\ chunk' = c
        /\ buffer' = r.buffer
        /\ panicked' = IF r.panic THEN "buffer[start..end]" ELSE "none"
        /\ pc' = IF r.panic THEN "panic" ELSE "decoded"

DecodeAny ==
    /\ pc = "idle"
    /\ \E buf \in Buffers, c \in Chunks :
           /\ before' = buf
           /\ DecodeCall(buf, c)
    /\ UNCHANGED <<max_dictionary_size, lookahead_buffer_size, raw_data, i,
                   compressed_data, tokens, k, position, length,
                   next_character, search, ahead, found>>

NextDecode == DecodeAny

SpecDecode == Init /\ [][NextDecode]_vars

----------------------------------------------------------------------------
(* encode called on arbitrary arguments, then decode on the token it wrote *)

Positions == 0..MaxPosition

Lengths == 0..MaxLength

Literals == {0, 97, 255}

Vectors == { <<>>, <<1, 2, 3>> }

\* LZ77::encode(&mut vec, pos, len, ch)
EncodeAny ==
    /\ pc = "idle"
    /\ pc' = "encoded"
    /\ \E vec \in Vectors, pos \in Positions, len \in Lengths, ch \in Literals :
           /\ before' = vec
           /\ position' = pos
           /\ length' = len
           /\ next_character' = ch
           /\ compressed_data' = Encode(vec, pos, len, ch)
    /\ UNCHANGED <<max_dictionary_size, lookahead_buffer_size, raw_data, i,
                   tokens, k, buffer, panicked, chunk, search, ahead, found>>

\* LZ77::decode(&mut Vec::new(), &compressed_data[n - 3..n])
DecodeEncoded ==
    /\ pc = "encoded"
    /\ DecodeCall(<<>>, Slice(compressed_data, Len(compressed_data) - 3,
                              Len(compressed_data)))
    /\ UNCHANGED <<max_dictionary_size, lookahead_buffer_size, raw_data, i,
                   compressed_data, tokens, k, position, length,
                   next_character, before, search, ahead, found>>

NextCodec ==
    \/ EncodeAny
    \/ DecodeEncoded

SpecCodec == Init /\ [][NextCodec]_vars

----------------------------------------------------------------------------
(* find_longest_match called on arbitrary slices *)

MatchBytes == {97, 98, 99}

\* the slices of the doc example: b"abcde" and b"abcde12345"
ExampleSearch == <<97, 98, 99, 100, 101>>

ExampleAhead == <<97, 98, 99, 100, 101, 49, 50, 51, 52, 53>>

MatchInputs ==
    (SeqsUpTo(MatchBytes, MaxSearch) \X SeqsUpTo(MatchBytes, MaxAhead))
        \cup { <<ExampleSearch, ExampleAhead>>, <<<<>>, ExampleAhead>> }

\* find_longest_match(&s, &a)
FindLongestMatchCall ==
    /\ pc = "idle"
    /\ pc' = "matched"
    /\ \E in \in MatchInputs :
           /\ search' = in[1]
           /\ ahead' = in[2]
           /\ found' = FindLongestMatch(in[1], in[2])
    /\ UNCHANGED <<max_dictionary_size, lookahead_buffer_size, raw_data, i,
                   compressed_data, tokens, k, buffer, panicked, position,
                   length, next_character, chunk, before>>

NextMatch == FindLongestMatchCall

SpecMatch == Init /\ [][NextMatch]_vars

----------------------------------------------------------------------------
(* Properties of compress followed by decompress *)

DefaultConfiguration ==
    /\ max_dictionary_size = DefaultMaxDictionarySize
    /\ lookahead_buffer_size = DefaultLookaheadBufferSize

\* C1: for every input that does not end in 0x00 (the empty one included) and
\* every configuration with max_dictionary_size <= 4095 and
\* lookahead_buffer_size <= 15, no bounds check fails and decompress returns
\* exactly the input that compress was given.
C1_RoundTrip ==
    (/\ max_dictionary_size <= 4095
     /\ lookahead_buffer_size <= 15
     /\ (raw_data = <<>> \/ raw_data[Len(raw_data)] # 0))
        => /\ panicked = "none"
           /\ pc # "panic"
           /\ (pc = "done" => buffer = raw_data)

\* the unit test: the 41-byte phrase under LZ77::new() comes back unchanged
C1_Witness ==
    /\ pc = "done"
    /\ DefaultConfiguration
    /\ raw_data = Phrase
    /\ buffer = Phrase
    /\ \E j \in 1..Len(tokens) : tokens[j].length >= 2

\* C2: whatever sizes the setters stored, every (distance, length) pair that
\* compress hands to encode has distance <= 4095 and length <= 15, so the
\* fields read back from the emitted token are the pair itself.
C2_TokenFieldBounds ==
    \A j \in 1..Len(tokens) :
        /\ tokens[j].cursor <= 4095
        /\ tokens[j].length <= 15
        /\ 3 * j <= Len(compressed_data) =>
              LET c == Slice(compressed_data, 3 * (j - 1), 3 * j)
              IN  /\ DecodePosition(c) = tokens[j].cursor
                  /\ DecodeLength(c) = tokens[j].length

\* C6 as stated: the run aaaaaa comes back whole and its token stream holds a
\* back-reference of distance 1 and of length above 1.
C6_DistanceOneOverlap ==
    (pc = "done" /\ DefaultConfiguration /\ raw_data = Run(97, 6))
        => /\ buffer = raw_data
           /\ \E j \in 1..Len(tokens) :
                  tokens[j].cursor = 1 /\ tokens[j].length > 1

\* C6 amended: the run aaaaaa comes back whole; its token stream is
\* (0,0,'a') (1,1,'a') (3,3,0), whose distance-1 back-reference has length
\* exactly 1, and no token of any input has a length above its distance.
C6_RunReconstruction ==
    /\ \A j \in 1..Len(tokens) : tokens[j].length <= tokens[j].cursor
    /\ (pc = "done" /\ DefaultConfiguration /\ raw_data = Run(97, 6))
          => /\ buffer = raw_data
             /\ Len(buffer) = 6
             /\ [j \in 1..Len(tokens) |->
                    <<tokens[j].cursor, tokens[j].length, tokens[j].next_character>>]
                  = << <<0, 0, 97>>, <<1, 1, 97>>, <<3, 3, 0>> >>
             /\ compressed_data = <<0, 0, 97, 1, 16, 97, 3, 48, 0>>

C6_Witness ==
    /\ pc = "done"
    /\ DefaultConfiguration
    /\ raw_data = Run(97, 6)
    /\ Len(tokens) = 3
    /\ tokens[2].cursor = 1
    /\ tokens[2].length = 1
    /\ buffer = Run(97, 6)

C10_SentinelAmbiguity ==
    (/\ pc = "done"
     /\ DefaultConfiguration
     /\ raw_data # <<>>
     /\ raw_data[Len(raw_data)] = 0)
        => LET n == Len(raw_data)
               t == tokens[Len(tokens)]
           IN  /\ panicked = "none"
               /\ t.next_character = 0
               /\ IF t.at + t.length = n
                  THEN buffer = raw_data
                  ELSE /\ t.at + t.length = n - 1
                       /\ buffer = SubSeq(raw_data, 1, n - 1)
               /\ (raw_data = <<0>> => buffer = <<>>)
               /\ (raw_data = <<0, 0>> => buffer = <<0, 0>>)

\* the lossy case on an input of several bytes
C10_Witness ==
    /\ pc = "done"
    /\ DefaultConfiguration
    /\ Len(raw_data) >= 3
    /\ raw_data[Len(raw_data)] = 0
    /\ \E j \in 1..Len(tokens) : tokens[j].length >= 1
    /\ buffer = SubSeq(raw_data, 1, Len(raw_data) - 1)

----------------------------------------------------------------------------
(* Properties of decompress on arbitrary streams *)

\* C3: for every stream whose length is not a multiple of 3, decompress
\* returns no buffer: it fails on the bounds check of the slice
\* compressed_data[i..i + 3] taken for the final partial chunk.
C3_MalformedStream ==
    (pc \in {"done", "panic"} /\ Len(compressed_data) % 3 # 0)
        => /\ pc = "panic"
           /\ panicked = "compressed_data[i..i + 3]"
           /\ k = 3 * (Len(compressed_data) \div 3)

----------------------------------------------------------------------------
(* Properties of decode *)

\* C4: for every buffer, empty or not, and every chunk whose distance is
\* greater than the length of the buffer, decode copies nothing and fails on
\* nothing: the buffer afterwards is the buffer before followed by chunk[2].
C4_CorruptBackReference ==
    (pc \in {"decoded", "panic"} /\ DecodePosition(chunk) > Len(before))
        => /\ pc = "decoded"
           /\ panicked = "none"
           /\ buffer = Append(before, chunk[3])

\* C5: for every buffer and every chunk with 1 <= distance <= len(buffer)
\* and length > distance, decode appends length bytes, the k-th of which
\* equals the byte at index len_before - distance + k of the growing buffer,
\* and then the literal; (1, 5, x) on [a] gives [a, a, a, a, a, a, x].
C5_OverlappingSelfCopy ==
    (/\ pc \in {"decoded", "panic"}
     /\ 1 <= DecodePosition(chunk)
     /\ DecodePosition(chunk) <= Len(before)
     /\ DecodeLength(chunk) > DecodePosition(chunk))
        => LET n == Len(before)
               d == DecodePosition(chunk)
               l == DecodeLength(chunk)
           IN  /\ pc = "decoded"
               /\ panicked = "none"
               /\ Len(buffer) = n + l + 1
               /\ SubSeq(buffer, 1, n) = before
               /\ \A x \in 0..(l - 1) : buffer[n + x + 1] = buffer[n - d + x + 1]
               /\ buffer[n + l + 1] = chunk[3]
               /\ (before = <<97>> /\ chunk = <<1, 80, 120>>
                      => buffer = <<97, 97, 97, 97, 97, 97, 120>>)

----------------------------------------------------------------------------
(* Properties of encode and of the fields decode reads *)

\* C7: for every distance in [0, 4095], length in [0, 15] and literal, encode
\* leaves the content of the vector in place and appends exactly the 3 bytes
\* distance & 0xFF, ((distance >> 8) & 0x0F) | ((length & 0x0F) << 4) and the
\* literal, and the fields decode reads from those 3 bytes are the distance,
\* the length and the literal again; encode(10, 3, 'a') is [10, 48, 97].
C7_TokenFieldInverse ==
    (pc \in {"encoded", "decoded"} /\ position \in 0..4095 /\ length \in 0..15)
        => LET n == Len(before)
           IN  /\ Len(compressed_data) = n + 3
               /\ SubSeq(compressed_data, 1, n) = before
               /\ compressed_data[n + 1] = position % 256
               /\ compressed_data[n + 2] =
                      ((position \div 256) % 16) + 16 * (length % 16)
               /\ compressed_data[n + 3] = next_character
               /\ \A j \in 1..3 : compressed_data[n + j] \in 0..255
               /\ (before = <<>> /\ position = 10 /\ length = 3 /\ next_character = 97
                      => compressed_data = <<10, 48, 97>>)
               /\ pc = "decoded"
                      => /\ chunk = SubSeq(compressed_data, n + 1, n + 3)
                         /\ DecodePosition(chunk) = position
                         /\ DecodeLength(chunk) = length
                         /\ chunk[3] = next_character

\* a token using both nibbles of the second byte, written after older content
C7_Witness ==
    /\ pc = "decoded"
    /\ before = <<1, 2, 3>>
    /\ position = 2748
    /\ length = 13
    /\ next_character = 255
    /\ compressed_data = <<1, 2, 3, 188, 218, 255>>
    /\ DecodePosition(chunk) = 2748
    /\ DecodeLength(chunk) = 13

----------------------------------------------------------------------------
(* Properties of find_longest_match *)

\* C8: find_longest_match returns (0, 0) when no non-empty prefix of ahead
\* occurs as a window lying inside search; otherwise it returns (distance, L)
\* where L is the greatest length in [1, len(ahead)] whose prefix occurs in
\* search and distance = len(search) - s for the greatest start s of that
\* prefix, so L <= distance <= len(search); ("abcde", "abcde12345") gives (5, 5).
C8_LongestRightmostMatch ==
    pc = "matched"
        => LET Occurs(L) ==
                   { s \in 0..(Len(search) - L) :
                         \A j \in 1..L : search[s + j] = ahead[j] }
               Ls == { L \in 1..Len(ahead) : Occurs(L) # {} }
           IN  /\ Ls = {} => found = <<0, 0>>
               /\ Ls # {} =>
                     LET L == CHOOSE x \in Ls : \A y \in Ls : y <= x
                         s == CHOOSE x \in Occurs(L) : \A y \in Occurs(L) : y <= x
                     IN  /\ found = <<Len(search) - s, L>>
                         /\ L <= found[1]
                         /\ found[1] <= Len(search)
               /\ (search = <<>> \/ ahead = <<>>) => found = <<0, 0>>
               /\ (search = ExampleSearch /\ ahead = ExampleAhead) => found = <<5, 5>>

\* a prefix that occurs twice: the occurrence next to the end of search wins
C8_Witness ==
    /\ pc = "matched"
    /\ search = <<97, 98, 97, 98, 99>>
    /\ ahead = <<97, 98, 98>>
    /\ found = <<3, 2>>

====
